---------------------------- MODULE Spec2Model ----------------------------
(***************************************************************************)
(* Model of tools/cmake/convert_to_cmake.py: the converter of ESP-IDF      *)
(* project Makefiles and component.mk files to CMakeLists.txt files.       *)
(*                                                                         *)
(* Three specifications share the module:                                  *)
(*   SpecParse      the line loop of get_make_variables                    *)
(*   SpecComponent  get_component_variables followed by convert_component  *)
(*   Spec           one run of convert_project                             *)
(*                                                                         *)
(* Strings that the code splits on " " are modelled as sequences of words; *)
(* the empty string is the empty sequence.  File paths are records         *)
(* [dir, stem, ext]; a directory prefix "" or "." names the component      *)
(* directory itself.                                                       *)
(***************************************************************************)
EXTENDS Integers, Sequences, FiniteSets, TLC

VARIABLES
    \* ---- get_make_variables (SpecParse)
    output,            \* the lines of make's stdout
    lineIdx,           \* index of the next line the for loop reads
    next_is_makefile,  \* the flag of line 41
    result,            \* the dictionary of line 42
    \* ---- get_component_variables / convert_component (SpecComponent)
    disk,              \* the files of the component directory
    make_vars,         \* what get_make_variables returned for the component
    v,                 \* what get_component_variables returned
    warned,            \* object stems reported by the WARNING of line 76
    cmakelists,        \* the component's CMakeLists.txt: NoFile or its lines
    cpc,               \* position: "start", "resolved", "skipped", "written"
    \* ---- convert_project (Spec)
    pc,                \* position in convert_project
    err,               \* the exception that ended the run, or "none"
    files,             \* path -> what is in its CMakeLists.txt
    project_vars,      \* the variables of the project Makefile
    component_paths,   \* line 107, then line 120
    declared_paths,    \* line 107, kept as declared
    main_component_path,
    main_vars,
    idx,               \* the for loop of line 123
    passed,            \* the paths handed to convert_component, in order
    outcomes,          \* what each of those calls did
    log                \* every open(..., "w"), with whether the file existed

parseVars == <<output, lineIdx, next_is_makefile, result>>
compVars == <<disk, make_vars, v, warned, cmakelists, cpc>>
projVars == <<pc, err, files, project_vars, component_paths, declared_paths,
              main_component_path, main_vars, idx, passed, outcomes, log>>
vars == <<parseVars, compVars, projVars>>

-----------------------------------------------------------------------------
(* Bounds *)

MaxLines == 4
MaxObjs == 2
MaxSrcs == 2
MaxPaths == 3

-----------------------------------------------------------------------------
(* Dictionaries: functions from names to values; an absent key is a name   *)
(* outside the domain.                                                     *)

EmptyDict == [n \in {} |-> <<>>]

Has(d, k) == k \in DOMAIN d

Put(d, k, x) == [n \in DOMAIN d \cup {k} |-> IF n = k THEN x ELSE d[n]]

Get(d, k, default) == IF k \in DOMAIN d THEN d[k] ELSE default

(* str.split(" "): the empty string gives one empty word, [""].            *)
EmptyWord == [dir |-> "", stem |-> "", ext |-> ""]

Split(s) == IF s = <<>> THEN <<EmptyWord>> ELSE s

(* " ".join(words) *)
Join(words) == words

-----------------------------------------------------------------------------
(* get_make_variables: lines 41-55                                         *)

Line(k, n, x) == [kind |-> k, var |-> n, val |-> x]

(* Lines make -p prints: the "# makefile (from ...)" marker, other lines   *)
(* (comments such as "# environment", blank lines, rules), and variable    *)
(* lines "name := value", "name = value", "name += value"; a value may be  *)
(* empty and may end in blanks.                                            *)
LineUniverse ==
    { Line("marker", "", ""),
      Line("other", "", ""),
      Line("colon", "PROJECT_NAME", "demo"),
      Line("eq", "PROJECT_NAME", "app "),
      Line("colon", "SHELL", "/bin/sh"),
      Line("eq", "MAKEFLAGS", "rpn"),
      Line("append", "CFLAGS", "-O2"),
      Line("colon", "CFLAGS", "") }

BUILT_IN_VARS == {"MAKEFILE_LIST", "SHELL", "CURDIR", "MAKEFLAGS"}

(* line.startswith("# makefile") *)
IsMarker(line) == line.kind = "marker"

(* re.match(r"(?P<var>[^ ]+) :?= (?P<val>.+)", line) is not None *)
re_match(line) == line.kind \in {"colon", "eq"} /\ line.val # ""

(* str.strip() *)
strip(s) == CASE s = "app " -> "app" [] OTHER -> s

(* The flag after the loop body has run on a line. *)
FlagAfter_NoReset(line, flag) == IF IsMarker(line) THEN TRUE ELSE flag

FlagAfter(line, flag) == IF IsMarker(line) THEN TRUE ELSE FALSE

(* The dictionary after the loop body has run on a line. *)
ResultAfter(line, flag, res) ==
    IF IsMarker(line) THEN res
    ELSE IF flag /\ re_match(line) /\ line.var \notin BUILT_IN_VARS
         THEN Put(res, line.var, strip(line.val))
         ELSE res

ParseIdle ==
    /\ output = <<>>
    /\ lineIdx = 1
    /\ next_is_makefile = FALSE
    /\ result = EmptyDict

ParseInit ==
    /\ output \in UNION { [1..n -> LineUniverse] : n \in 0..MaxLines }
    /\ lineIdx = 1
    /\ next_is_makefile = FALSE
    /\ result = EmptyDict

(* One iteration of the for loop of line 45. *)
ParseLine ==
    /\ lineIdx <= Len(output)
    /\ next_is_makefile' = FlagAfter(output[lineIdx], next_is_makefile)
    /\ result' = ResultAfter(output[lineIdx], next_is_makefile, result)
    /\ lineIdx' = lineIdx + 1
    /\ UNCHANGED <<output, compVars, projVars>>


-----------------------------------------------------------------------------
(* Paths and the component directory                                       *)

F(d, s, e) == [dir |-> d, stem |-> s, ext |-> e]

(* A word that is not a file name: a directory, a flag. *)
W(s) == [dir |-> "", stem |-> s, ext |-> ""]

(* A directory word of COMPONENT_SRCDIRS. *)
D(d) == [dir |-> d, stem |-> "", ext |-> ""]

Range(s) == { s[i] : i \in 1..Len(s) }

Min(S) == CHOOSE x \in S : \A y \in S : x <= y

Max(S) == CHOOSE x \in S : \A y \in S : x >= y

SeqsUpTo(S, n) == UNION { [1..k -> S] : k \in 0..n }

(* os.path.normpath(os.path.join(component_path, p)), as a path relative   *)
(* to the component directory: "a.c" and "./a.c" are the same file, and    *)
(* the empty word is the component directory.                              *)
Norm(p) == [p EXCEPT !.dir = IF p.dir \in {"", "."} THEN "." ELSE p.dir]

(* The files a component directory may hold. *)
DiskUniverse ==
    { F(".", "a", "c"), F(".", "a", "cpp"), F(".", "a", "S"),
      F(".", "b", "cpp"), F(".", "b", "h"), F("sub", "a", "c") }

(* os.path.exists(os.path.join(component_path, p)) *)
Exists(dk, p) == Norm(p) \in dk

(* glob.glob(normpath(join(component_path, d, "*.[cS]"))) and "*.cpp" *)
Glob(dk, d) ==
    { f \in dk : f.dir = Norm(d).dir /\ f.stem # "" /\ f.ext \in {"c", "S"} }
    \cup
    { f \in dk : f.dir = Norm(d).dir /\ f.stem # "" /\ f.ext = "cpp" }

-----------------------------------------------------------------------------
(* get_component_variables: lines 69-90                                    *)

SrcExts == <<"c", "cpp", "S">>

(* os.path.splitext(obj)[0] *)
splitext0(obj) == [obj EXCEPT !.ext = ""]

(* find_src, lines 71-77: <<the source>>, or <<>> for None. *)
find_src_LastExt(dk, obj) ==
    LET found == { i \in 1..Len(SrcExts) :
                     Exists(dk, [splitext0(obj) EXCEPT !.ext = SrcExts[i]]) }
    IN  IF found = {} THEN <<>>
        ELSE << [splitext0(obj) EXCEPT !.ext = SrcExts[Max(found)]] >>

find_src(dk, obj) ==
    LET found == { i \in 1..Len(SrcExts) :
                     Exists(dk, [splitext0(obj) EXCEPT !.ext = SrcExts[i]]) }
    IN  IF found = {} THEN <<>>
        ELSE << [splitext0(obj) EXCEPT !.ext = SrcExts[Min(found)]] >>

(* The loop of lines 79-83. *)
RECURSIVE SrcsOfObjs(_, _)
SrcsOfObjs(dk, objs) ==
    IF objs = <<>> THEN <<>>
    ELSE find_src(dk, Head(objs)) \o SrcsOfObjs(dk, Tail(objs))

(* The stems line 76 warns about. *)
WarnedOfObjs(dk, objs) ==
    { splitext0(objs[i]) : i \in { j \in 1..Len(objs) : find_src(dk, objs[j]) = <<>> } }

get_component_variables(dk, mv) ==
    LET sourced ==
          IF Has(mv, "COMPONENT_OBJS")
          THEN Put(mv, "COMPONENT_SRCS",
                   Join(SrcsOfObjs(dk, Split(mv["COMPONENT_OBJS"]))))
          ELSE Put(mv, "COMPONENT_SRCDIRS",
                   Get(mv, "COMPONENT_SRCDIRS", <<D(".")>>))
    IN  Put(sourced, "COMPONENT_ADD_INCLUDEDIRS",
            Get(mv, "COMPONENT_ADD_INCLUDEDIRS", <<W("include")>>))

-----------------------------------------------------------------------------
(* convert_component: lines 166-192                                        *)

(* A CMakeLists.txt: its lines, and who wrote them; NoFile when absent. *)
NoFile == [kind |-> "none", body |-> <<>>]

(* A CMakeLists.txt that was there before the run. *)
OldFile == [kind |-> "old", body |-> <<>>]

FileExists(f) == f.kind # "none"

Decl(name, arg) == [cmd |-> "set", name |-> name, arg |-> arg]

Directive(name, arg) == [cmd |-> name, name |-> "", arg |-> arg]

(* line 175 *)
SameSources_Subset(allsrcs, abs_srcs) == abs_srcs \subseteq allsrcs

SameSources(allsrcs, abs_srcs) == allsrcs = abs_srcs

(* lines 166-176: <<COMPONENT_SRCDIRS>> when the directory form is chosen, *)
(* <<>> for None.                                                          *)
component_srcdirs(dk, cv) ==
    IF ~Has(cv, "COMPONENT_SRCS") THEN <<>>
    ELSE LET component_allsrcs ==
               UNION { Glob(dk, d) :
                         d \in Range(Split(Get(cv, "COMPONENT_SRCDIRS", <<>>))) }
             abs_component_srcs ==
               { Norm(p) : p \in Range(Split(cv["COMPONENT_SRCS"])) }
         IN  IF SameSources(component_allsrcs, abs_component_srcs)
                /\ Has(cv, "COMPONENT_SRCDIRS")
             THEN <<cv["COMPONENT_SRCDIRS"]>>
             ELSE <<>>

(* lines 183-190: the source declaration and the registration *)
SourceLines_AlwaysRegister(srcdirs, cv) ==
    IF srcdirs # <<>>
    THEN << Decl("COMPONENT_SRCDIRS", srcdirs[1]),
            Directive("register_component()", <<>>) >>
    ELSE IF Has(cv, "COMPONENT_SRCS")
    THEN << Decl("COMPONENT_SRCS", cv["COMPONENT_SRCS"]),
            Directive("register_component()", <<>>) >>
    ELSE << Directive("register_component()", <<>>) >>

SourceLines(srcdirs, cv) ==
    IF srcdirs # <<>>
    THEN << Decl("COMPONENT_SRCDIRS", srcdirs[1]),
            Directive("register_component()", <<>>) >>
    ELSE IF Has(cv, "COMPONENT_SRCS")
    THEN << Decl("COMPONENT_SRCS", cv["COMPONENT_SRCS"]),
            Directive("register_component()", <<>>) >>
    ELSE << Directive("register_config_only_component()", <<>>) >>

(* lines 181-192: what is written to the component's CMakeLists.txt *)
ComponentDescriptor(dk, cv) ==
    << Decl("COMPONENT_ADD_INCLUDEDIRS", cv["COMPONENT_ADD_INCLUDEDIRS"]) >>
    \o SourceLines(component_srcdirs(dk, cv), cv)
    \o (IF Has(cv, "CFLAGS")
        THEN << Directive("component_compile_options", cv["CFLAGS"]) >>
        ELSE <<>>)

-----------------------------------------------------------------------------
(* What the oracle may return for a component                              *)

Opt(S) == {<<>>} \cup { <<x>> : x \in S }

PutOpt(d, k, o) == IF o = <<>> THEN d ELSE Put(d, k, o[1])

ObjWords == { F("", "a", "o"), F("", "b", "o") }

SrcWords == { F("", "a", "c"), F(".", "a", "c"), F("", "b", "cpp"), F("sub", "a", "c") }

DirLists == { <<D(".")>>, <<D("sub")>>, <<D("."), D("sub")>> }

SourceVars ==
    { PutOpt(EmptyDict, "COMPONENT_SRCS", s) : s \in Opt(SeqsUpTo(SrcWords, MaxSrcs)) }
    \cup
    { PutOpt(Put(EmptyDict, "COMPONENT_OBJS", o), "COMPONENT_SRCS", s) :
        o \in SeqsUpTo(ObjWords, MaxObjs), s \in Opt({ <<F("", "b", "cpp")>> }) }

ComponentVars ==
    { PutOpt(PutOpt(PutOpt(sv, "COMPONENT_SRCDIRS", d),
                    "COMPONENT_ADD_INCLUDEDIRS", i), "CFLAGS", c) :
        sv \in SourceVars, d \in Opt(DirLists),
        i \in Opt({ <<W("inc")>> }), c \in Opt({ <<W("-O2")>> }) }

CompIdle ==
    /\ disk = {}
    /\ make_vars = EmptyDict
    /\ v = EmptyDict
    /\ warned = {}
    /\ cmakelists = NoFile
    /\ cpc = "idle"

CompInit ==
    /\ disk \in SUBSET DiskUniverse
    /\ make_vars \in ComponentVars
    /\ v = EmptyDict
    /\ warned = {}
    /\ cmakelists \in { NoFile, OldFile }
    /\ cpc = "start"

(* lines 158-161: an existing CMakeLists.txt is left alone *)
SkipConverted ==
    /\ cpc = "start"
    /\ FileExists(cmakelists)
    /\ cpc' = "skipped"
    /\ UNCHANGED <<disk, make_vars, v, warned, cmakelists, parseVars, projVars>>

(* line 162 *)
GetComponentVariables ==
    /\ cpc = "start"
    /\ ~FileExists(cmakelists)
    /\ v' = get_component_variables(disk, make_vars)
    /\ warned' = IF Has(make_vars, "COMPONENT_OBJS")
                 THEN WarnedOfObjs(disk, Split(make_vars["COMPONENT_OBJS"]))
                 ELSE {}
    /\ cpc' = "resolved"
    /\ UNCHANGED <<disk, make_vars, cmakelists, parseVars, projVars>>

(* lines 166-194 *)
WriteComponent ==
    /\ cpc = "resolved"
    /\ cmakelists' = [kind |-> "component", body |-> ComponentDescriptor(disk, v)]
    /\ cpc' = "written"
    /\ UNCHANGED <<disk, make_vars, v, warned, parseVars, projVars>>


-----------------------------------------------------------------------------
(* convert_project: lines 93-153                                           *)

P(d, b) == [dir |-> d, base |-> b]

(* os.path.basename *)
basename(p) == p.base

CompA == P("/proj/components", "compA")

CompB == P("/proj/components", "compB")

MainPath == P("/proj", "main")

(* A second directory named main, among the components. *)
OtherMain == P("/proj/components", "main")

(* Declared in COMPONENT_PATHS and not on disk. *)
Gone == P("/proj", "gone")

ProjectPath == P("/", "proj")

PathUniverse == { CompA, CompB, MainPath, OtherMain, Gone, ProjectPath }

(* os.path.exists of a component directory *)
DirExists(p) == p # Gone

(* main_component_path before line 111 has bound it *)
Unbound == P("<unbound>", "")

(* What the oracle and the disk may give for a component of the project. *)
ComponentSamples ==
    { [dk |-> {F(".", "a", "c")}, mv |-> Put(EmptyDict, "COMPONENT_OBJS", <<F("", "a", "o")>>)],
      [dk |-> {}, mv |-> EmptyDict] }

MainSamples ==
    ComponentSamples
    \cup { [dk |-> {}, mv |-> Put(EmptyDict, "COMPONENT_OBJS", <<F("", "a", "o")>>)] }

ProjectVarsUniverse ==
    { PutOpt(PutOpt(EmptyDict, "PROJECT_NAME", n), "COMPONENT_PATHS", c) :
        n \in Opt({ <<W("demo")>> }),
        c \in Opt(SeqsUpTo(PathUniverse, MaxPaths) \ {<<>>}) }

ProjIdle ==
    /\ pc = "idle"
    /\ err = "none"
    /\ files = [p \in PathUniverse |-> NoFile]
    /\ project_vars = EmptyDict
    /\ component_paths = <<>>
    /\ declared_paths = <<>>
    /\ main_component_path = Unbound
    /\ main_vars = EmptyDict
    /\ idx = 1
    /\ passed = <<>>
    /\ outcomes = <<>>
    /\ log = <<>>

ProjInit ==
    /\ pc = "start"
    /\ err = "none"
    /\ files \in { [p \in PathUniverse |-> IF p \in old THEN OldFile ELSE NoFile] :
                     old \in SUBSET { ProjectPath, CompA } }
    /\ project_vars = EmptyDict
    /\ component_paths = <<>>
    /\ declared_paths = <<>>
    /\ main_component_path = Unbound
    /\ main_vars = EmptyDict
    /\ idx = 1
    /\ passed = <<>>
    /\ outcomes = <<>>
    /\ log = <<>>

Raise(e) ==
    /\ pc' = "error"
    /\ err' = e

(* lines 94-101 *)
CheckProject ==
    /\ pc = "start"
    /\ \E found \in { "ok", "no directory", "no Makefile" } :
         IF found # "ok" THEN Raise("RuntimeError: " \o found)
         ELSE IF FileExists(files[ProjectPath])
         THEN Raise("RuntimeError: already has a CMakeLists.txt")
         ELSE pc' = "resolve" /\ err' = err
    /\ UNCHANGED <<files, project_vars, component_paths, declared_paths,
                   main_component_path, main_vars, idx, passed, outcomes, log,
                   parseVars, compVars>>

(* lines 103-107 *)
ResolveProject ==
    /\ pc = "resolve"
    /\ \E pv \in ProjectVarsUniverse :
         /\ project_vars' = pv
         /\ IF ~Has(pv, "PROJECT_NAME")
            THEN Raise("RuntimeError: PROJECT_NAME") /\ UNCHANGED <<component_paths, declared_paths>>
            ELSE IF ~Has(pv, "COMPONENT_PATHS")
            THEN Raise("KeyError: COMPONENT_PATHS") /\ UNCHANGED <<component_paths, declared_paths>>
            ELSE /\ component_paths' = pv["COMPONENT_PATHS"]
                 /\ declared_paths' = pv["COMPONENT_PATHS"]
                 /\ pc' = "find_main"
                 /\ err' = err
    /\ UNCHANGED <<files, main_component_path, main_vars, idx, passed, outcomes,
                   log, parseVars, compVars>>

IsMain(p) == basename(p) = "main"

NotMain(p) == basename(p) # "main"

(* lines 109-120 *)
FindMain ==
    /\ pc = "find_main"
    /\ LET mains == SelectSeq(component_paths, IsMain)
       IN  IF mains # <<>>
           THEN /\ main_component_path' = mains[1]
                /\ \E s \in MainSamples :
                     main_vars' = get_component_variables(s.dk, s.mv)
           ELSE /\ main_component_path' = main_component_path
                /\ main_vars' = Put(EmptyDict, "COMPONENT_SRCS", <<>>)
    /\ component_paths' = SelectSeq(component_paths, NotMain)
    /\ idx' = 1
    /\ pc' = "convert"
    /\ UNCHANGED <<err, files, project_vars, declared_paths, passed, outcomes,
                   log, parseVars, compVars>>

(* convert_component, lines 158-161 and 181: what one call does *)
ConvertOutcome_FailOnExisting(exists, direxists) ==
    IF exists \/ ~direxists THEN "failed" ELSE "converted"

ConvertOutcome(exists, direxists) ==
    IF exists THEN "skipped"
    ELSE IF ~direxists THEN "failed"
    ELSE "converted"

(* lines 123-124: one iteration of the loop, the whole of convert_component *)
ConvertNext ==
    /\ pc = "convert"
    /\ idx <= Len(component_paths)
    /\ LET p == component_paths[idx]
           existed == FileExists(files[p])
           outcome == ConvertOutcome(existed, DirExists(p))
       IN  /\ passed' = Append(passed, p)
           /\ outcomes' = Append(outcomes, [path |-> p, existed |-> existed, outcome |-> outcome])
           /\ IF outcome = "skipped"
              THEN /\ idx' = idx + 1
                   /\ UNCHANGED <<pc, err, files, log>>
              ELSE IF outcome = "failed"
              THEN /\ Raise("IOError")
                   /\ UNCHANGED <<idx, files, log>>
              ELSE /\ \E s \in ComponentSamples :
                        files' = [files EXCEPT ![p] =
                                    [kind |-> "component",
                                     body |-> ComponentDescriptor(
                                                s.dk, get_component_variables(s.dk, s.mv))]]
                   /\ log' = Append(log, [path |-> p, kind |-> "component", existed |-> existed])
                   /\ idx' = idx + 1
                   /\ UNCHANGED <<pc, err>>
    /\ UNCHANGED <<project_vars, component_paths, declared_paths,
                   main_component_path, main_vars, parseVars, compVars>>

(* lines 129-135: the exception these lookups raise, or "none" *)
EntryLookupError_Unchecked(mcp, mvars) == "none"

EntryLookupError(mcp, mvars) ==
    IF ~Has(mvars, "COMPONENT_SRCS") THEN "KeyError: COMPONENT_SRCS"
    ELSE IF mcp = Unbound THEN "NameError: main_component_path"
    ELSE "none"

(* lines 129-133: each source, relative to the project directory *)
MainSrcs(mcp, mvars) ==
    LET words == Split(Get(mvars, "COMPONENT_SRCS", <<>>))
    IN  [i \in 1..Len(words) |-> [path |-> mcp, file |-> Norm(words[i])]]

(* lines 139-151: what is written to the project's CMakeLists.txt *)
ProjectDescriptor(main_srcs, project_name) ==
    << Directive("cmake_minimum_required", <<W("VERSION"), W("3.5")>>),
       Decl("MAIN_SRCS", main_srcs),
       Directive("include", <<W("$ENV{IDF_PATH}/tools/cmake/project.cmake")>>),
       Directive("project", project_name) >>

(* lines 126-135 *)
LookupMain ==
    /\ pc = "convert"
    /\ idx > Len(component_paths)
    /\ LET e == EntryLookupError(main_component_path, main_vars)
       IN  IF e # "none" THEN Raise(e)
           ELSE pc' = "write" /\ err' = err
    /\ UNCHANGED <<files, project_vars, component_paths, declared_paths,
                   main_component_path, main_vars, idx, passed, outcomes, log,
                   parseVars, compVars>>

(* lines 137-153 *)
WriteProject ==
    /\ pc = "write"
    /\ log' = Append(log, [path |-> ProjectPath, kind |-> "project",
                           existed |-> FileExists(files[ProjectPath])])
    /\ files' = [files EXCEPT ![ProjectPath] =
                   [kind |-> "project",
                    body |-> ProjectDescriptor(
                              MainSrcs(main_component_path, main_vars),
                              Get(project_vars, "PROJECT_NAME", <<>>))]]
    /\ pc' = "done"
    /\ UNCHANGED <<err, project_vars, component_paths, declared_paths,
                   main_component_path, main_vars, idx, passed, outcomes,
                   parseVars, compVars>>

-----------------------------------------------------------------------------
(* Specifications                                                          *)

InitParse == ParseInit /\ CompIdle /\ ProjIdle

NextParse == ParseLine

SpecParse == InitParse /\ [][NextParse]_vars

InitComponent == ParseIdle /\ CompInit /\ ProjIdle

NextComponent == SkipConverted \/ GetComponentVariables \/ WriteComponent

SpecComponent == InitComponent /\ [][NextComponent]_vars

Init == ParseIdle /\ CompIdle /\ ProjInit

Next ==
    \/ CheckProject
    \/ ResolveProject
    \/ FindMain
    \/ ConvertNext
    \/ LookupMain
    \/ WriteProject

Spec == Init /\ [][Next]_vars


-----------------------------------------------------------------------------
(* Properties of convert_component (SpecComponent)                         *)

SourceExts == {"c", "S", "cpp"}

(* The declared source directories, "." when COMPONENT_SRCDIRS is absent. *)
DeclaredDirs ==
    IF Has(v, "COMPONENT_SRCDIRS") THEN Range(v["COMPONENT_SRCDIRS"]) ELSE { D(".") }

(* Every *.c, *.S and *.cpp file of the declared source directories. *)
GlobbedSet ==
    { f \in disk : /\ f.ext \in SourceExts
                   /\ \E d \in DeclaredDirs :
                        \/ d.dir \in {"", "."} /\ f.dir = "."
                        \/ d.dir = f.dir }

(* The explicit source list, as normalized paths under the component. *)
ExplicitSet == { Norm(p) : p \in Range(v["COMPONENT_SRCS"]) }

(* The list as the component gave it: COMPONENT_SRCS of the oracle, or the *)
(* one derived from COMPONENT_OBJS.                                        *)
OriginalList ==
    IF Has(make_vars, "COMPONENT_OBJS") THEN v["COMPONENT_SRCS"]
    ELSE make_vars["COMPONENT_SRCS"]

Declares(name) ==
    { i \in 1..Len(cmakelists.body) :
        cmakelists.body[i].cmd = "set" /\ cmakelists.body[i].name = name }

Written == cpc = "written"

(* C1: a component whose explicit source list, as a set of normalized      *)
(* paths, equals the globbed files of its source directories gets the      *)
(* directory form: a COMPONENT_SRCDIRS declaration and no COMPONENT_SRCS.  *)
C1_EqualSetsGiveDirectoryForm ==
    (Written /\ Has(v, "COMPONENT_SRCS") /\ ExplicitSet = GlobbedSet)
        => /\ Declares("COMPONENT_SRCDIRS") # {}
           /\ Declares("COMPONENT_SRCS") = {}

(* C2: a component whose explicit source set differs from the globbed set  *)
(* gets the explicit form: one COMPONENT_SRCS declaration carrying the     *)
(* original list unaltered, and no COMPONENT_SRCDIRS declaration.          *)
C2_DifferentSetsGiveExplicitForm ==
    (Written /\ Has(v, "COMPONENT_SRCS") /\ ExplicitSet # GlobbedSet)
        => /\ Declares("COMPONENT_SRCDIRS") = {}
           /\ Cardinality(Declares("COMPONENT_SRCS")) = 1
           /\ \A i \in Declares("COMPONENT_SRCS") :
                cmakelists.body[i].arg = OriginalList

(* The explicit list is a strict, non-empty subset of the globbed files of *)
(* the declared directories.                                               *)
C2_Witness ==
    /\ Written
    /\ Has(v, "COMPONENT_SRCS")
    /\ Has(make_vars, "COMPONENT_SRCDIRS")
    /\ ExplicitSet # {}
    /\ ExplicitSet \subseteq GlobbedSet
    /\ ExplicitSet # GlobbedSet
    /\ Declares("COMPONENT_SRCS") # {}

(* The object list of the oracle, one entry per object file; a value that *)
(* is blank holds one object, of empty stem.                               *)
Objs ==
    IF make_vars["COMPONENT_OBJS"] = <<>> THEN <<F("", "", "o")>>
    ELSE make_vars["COMPONENT_OBJS"]

SourceOf(o, e) == F(".", o.stem, e)

HasSource(o) == \E e \in SourceExts : SourceOf(o, e) \in disk

(* The extension of highest priority, c then cpp then S, that is on disk. *)
BestExt(o) ==
    IF SourceOf(o, "c") \in disk THEN "c"
    ELSE IF SourceOf(o, "cpp") \in disk THEN "cpp"
    ELSE "S"

Kept == { i \in 1..Len(Objs) : HasSource(Objs[i]) }

(* The k-th object, in list order, that has a source. *)
KthKept(k) == CHOOSE i \in Kept : Cardinality({ j \in Kept : j <= i }) = k

(* C7: with COMPONENT_OBJS resolved, COMPONENT_SRCS holds, in the order of *)
(* the object list, one entry per stem that has <stem>.c, <stem>.cpp or    *)
(* <stem>.S in the component directory, with the first existing extension  *)
(* in the order c, cpp, S; a stem with no such file is left out with a     *)
(* warning; every path of the list exists on disk.                         *)
C7_ObjectsBecomeExistingSources ==
    (cpc \in {"resolved", "written"} /\ Has(make_vars, "COMPONENT_OBJS"))
        => /\ Has(v, "COMPONENT_SRCS")
           /\ Len(v["COMPONENT_SRCS"]) = Cardinality(Kept)
           /\ \A k \in 1..Len(v["COMPONENT_SRCS"]) :
                /\ v["COMPONENT_SRCS"][k] =
                     F(Objs[KthKept(k)].dir, Objs[KthKept(k)].stem, BestExt(Objs[KthKept(k)]))
                /\ Norm(v["COMPONENT_SRCS"][k]) \in disk
           /\ warned = { [Objs[i] EXCEPT !.ext = ""] : i \in (1..Len(Objs)) \ Kept }

(* One stem has no source, another has .cpp and .S and no .c: the list     *)
(* holds the .cpp alone and the conversion has written the descriptor.     *)
C7_Witness ==
    /\ Written
    /\ Has(make_vars, "COMPONENT_OBJS")
    /\ Len(Objs) = 2
    /\ warned # {}
    /\ Len(v["COMPONENT_SRCS"]) = 1
    /\ v["COMPONENT_SRCS"][1].ext = "cpp"
    /\ [Norm(v["COMPONENT_SRCS"][1]) EXCEPT !.ext = "S"] \in disk

Registrations ==
    { i \in 1..Len(cmakelists.body) :
        cmakelists.body[i].cmd \in {"register_component()", "register_config_only_component()"} }

CompileOptions ==
    { i \in 1..Len(cmakelists.body) : cmakelists.body[i].cmd = "component_compile_options" }

SourceDecls == Declares("COMPONENT_SRCDIRS") \cup Declares("COMPONENT_SRCS")

(* C9: a written descriptor is, in this order: the include-directories     *)
(* declaration; at most one of COMPONENT_SRCDIRS and COMPONENT_SRCS; one   *)
(* registration, register_component() when a source declaration was        *)
(* written and register_config_only_component() when none was, which is    *)
(* exactly when there is no COMPONENT_SRCS; then                           *)
(* component_compile_options if and only if CFLAGS was resolved.           *)
C9_DescriptorLayout ==
    Written =>
        LET body == cmakelists.body
            nsrc == Cardinality(SourceDecls)
        IN  /\ Declares("COMPONENT_ADD_INCLUDEDIRS") = {1}
            /\ nsrc \in {0, 1}
            /\ SourceDecls \subseteq {2}
            /\ nsrc = 0 <=> ~Has(v, "COMPONENT_SRCS")
            /\ Registrations = {2 + nsrc}
            /\ body[2 + nsrc].cmd = IF nsrc = 1 THEN "register_component()"
                                    ELSE "register_config_only_component()"
            /\ CompileOptions = IF Has(make_vars, "CFLAGS") THEN {3 + nsrc} ELSE {}
            /\ Len(body) = 2 + nsrc + Cardinality(CompileOptions)

(* A config-only component with CFLAGS: neither COMPONENT_SRCS nor         *)
(* COMPONENT_SRCDIRS was set.                                              *)
C9_Witness ==
    /\ Written
    /\ ~Has(make_vars, "COMPONENT_SRCS")
    /\ ~Has(make_vars, "COMPONENT_SRCDIRS")
    /\ ~Has(make_vars, "COMPONENT_OBJS")
    /\ Has(make_vars, "CFLAGS")
    /\ Len(cmakelists.body) = 3

-----------------------------------------------------------------------------
(* Properties of get_make_variables (SpecParse)                            *)

Denylist == {"MAKEFILE_LIST", "SHELL", "CURDIR", "MAKEFLAGS"}

IsDefinitionOf(line, n) ==
    line.kind \in {"colon", "eq"} /\ line.var = n /\ line.val # ""

(* Some line already read defines n and directly follows a marker line. *)
DefinedAfterMarker(n) ==
    \E i \in 2..(lineIdx - 1) :
        IsDefinitionOf(output[i], n) /\ output[i - 1].kind = "marker"

(* C8: a name is in the result only if a line "<name> := <value>" or       *)
(* "<name> = <value>" directly follows a "# makefile" line, and no name of *)
(* the denylist is ever a key.                                             *)
C8_OnlyMarkedDefinitionsCaptured ==
    \A n \in DOMAIN result : n \notin Denylist /\ DefinedAfterMarker(n)

(* All lines are read; a name was captured, a denylisted definition that   *)
(* follows a marker was not.                                               *)
C8_Witness ==
    /\ lineIdx > Len(output)
    /\ Has(result, "PROJECT_NAME")
    /\ DefinedAfterMarker("SHELL")
    /\ ~Has(result, "SHELL")


-----------------------------------------------------------------------------
(* Properties of convert_project (Spec)                                    *)

ProjectWrites == { i \in 1..Len(log) : log[i].kind = "project" }

Resolved == Has(project_vars, "PROJECT_NAME") /\ Has(project_vars, "COMPONENT_PATHS")

Failed == { i \in 1..Len(outcomes) : outcomes[i].outcome = "failed" }

NoEntryDeclared ==
    /\ Resolved
    /\ \A p \in Range(declared_paths) : basename(p) # "main"

ProjectBody == files[ProjectPath].body

(* C3: with no path of basename "main" the run warns and completes: it     *)
(* does not end with an error, and the project descriptor it writes has an *)
(* empty MAIN_SRCS and the project name.                                   *)
C3_NoEntryRunCompletes ==
    (NoEntryDeclared /\ Failed = {})
        => /\ pc # "error"
           /\ pc = "done" =>
                /\ files[ProjectPath].kind = "project"
                /\ \E i \in 1..Len(ProjectBody) :
                     ProjectBody[i].name = "MAIN_SRCS" /\ ProjectBody[i].arg = <<>>
                /\ \E i \in 1..Len(ProjectBody) :
                     /\ ProjectBody[i].cmd = "project"
                     /\ ProjectBody[i].arg = project_vars["PROJECT_NAME"]

ProjectLevelErrors ==
    { "RuntimeError: PROJECT_NAME", "KeyError: COMPONENT_PATHS", "KeyError: COMPONENT_SRCS" }

(* C4 as stated: a fatal project-level error (no PROJECT_NAME, no          *)
(* COMPONENT_PATHS, an entry component with no COMPONENT_SRCS) occurs with *)
(* no descriptor file written yet.                                         *)
C4_NoWriteBeforeProjectError ==
    (pc = "error" /\ err \in ProjectLevelErrors) => log = <<>>

(* C4 as amended: the project name and the component path list are looked  *)
(* up before the first write of the run; the entry sources are looked up   *)
(* after the components are converted and before the project descriptor is *)
(* opened.  A run that ends with an error has not written the project      *)
(* descriptor, and the descriptor is written only with every lookup done.  *)
C4_LookupsBeforeProjectWrite ==
    /\ (pc = "error" /\ err \in { "RuntimeError: PROJECT_NAME", "KeyError: COMPONENT_PATHS" })
          => log = <<>>
    /\ pc = "error" => (ProjectWrites = {} /\ files[ProjectPath].kind # "project")
    /\ ProjectWrites # {} =>
          /\ Resolved
          /\ Has(main_vars, "COMPONENT_SRCS")
          /\ main_component_path # Unbound

(* The entry component has no COMPONENT_SRCS: the run ends with the error  *)
(* after a component descriptor was written.                               *)
C4_Witness ==
    /\ pc = "error"
    /\ err = "KeyError: COMPONENT_SRCS"
    /\ \E i \in 1..Len(log) : log[i].kind = "component"
    /\ ProjectWrites = {}

(* C5: no CMakeLists.txt is opened for writing where one exists, and a     *)
(* project descriptor that was there at the start stops the run before any *)
(* write.                                                                  *)
C5_NeverOverwrites ==
    /\ \A i \in 1..Len(log) : ~log[i].existed
    /\ files[ProjectPath].kind = "old" => log = <<>>

EntryResolved == main_component_path # Unbound /\ Has(main_vars, "COMPONENT_SRCS")

(* C6 as stated: a component that is skipped or whose conversion fails     *)
(* does not stop the run: every sibling is still handed to                 *)
(* convert_component and the project descriptor is emitted.                *)
C6_FailureOrSkipIsolated ==
    (pc \in {"done", "error"} /\ EntryResolved)
        => /\ pc = "done"
           /\ passed = component_paths

(* C6 as amended: a component whose descriptor exists is skipped and the   *)
(* loop goes on: when no conversion fails, every sibling is handed to      *)
(* convert_component before the entry lookups and the project descriptor.  *)
(* A conversion that fails (its directory does not exist) ends the run     *)
(* with the exception: no later sibling is converted and the project       *)
(* descriptor is not written.                                              *)
C6_SkipIsolatedFailureAborts ==
    /\ \A i \in 1..Len(outcomes) :
          /\ outcomes[i].existed => outcomes[i].outcome = "skipped"
          /\ outcomes[i].outcome = "skipped" =>
                (i < Len(outcomes) \/ pc # "error" \/ err # "IOError")
          /\ outcomes[i].outcome = "failed" =>
                /\ i = Len(outcomes)
                /\ ~DirExists(outcomes[i].path)
                /\ pc = "error" /\ err = "IOError"
    /\ passed = SubSeq(component_paths, 1, Len(passed))
    /\ (pc \in {"write", "done"} \/ (pc = "error" /\ err # "IOError" /\ outcomes # <<>>))
          => (passed = component_paths /\ Failed = {})
    /\ (pc = "error" /\ err = "IOError")
          => (Failed = {Len(outcomes)} /\ ProjectWrites = {})

(* A component is skipped, a later sibling is converted, and the project   *)
(* descriptor is written.                                                  *)
C6_Witness ==
    /\ pc = "done"
    /\ \E i, j \in 1..Len(outcomes) :
          /\ i < j
          /\ outcomes[i].outcome = "skipped"
          /\ outcomes[j].outcome = "converted"
          /\ outcomes[j].path = CompB

(* C10: every declared component path is the entry component or was handed *)
(* to convert_component by the time the project descriptor is written.     *)
C10_NoComponentDropped ==
    pc \in {"write", "done"} =>
        \A p \in Range(declared_paths) :
            p = main_component_path \/ p \in Range(passed)

=============================================================================
